---- MODULE Spec2Model ----
(***************************************************************************)
(* Model of the updater orchestrator (src/updater/updater.cpp): Init,      *)
(* RunUpdate, WriteToCommandPipe, UiPrint and ParseAndReportErrorCode.     *)
(*                                                                         *)
(* Text is a sequence of tokens.  The tokens "E", the decimal digits, " ", *)
(* "+", "-", ":" and "\n" are the characters the code inspects; every      *)
(* other token stands for a run of ordinary characters.                    *)
(*                                                                         *)
(* A line put on the command pipe is the record of one fprintf call:       *)
(*   cmd  - the fixed text of the format string,                           *)
(*   text - the %s argument (tokens), <<>> when the format has none,       *)
(*   num  - the %d argument, 0 when the format has none.                   *)
(***************************************************************************)
EXTENDS Integers, Sequences, FiniteSets, TLC

\* ---------------------------------------------------------------- bounds
MaxLines == 2        \* lines in an abort message the engine leaves
MaxMsgLen == 4       \* tokens in a message given to UiPrint / WriteToCommandPipe
MaxParseErrors == 2  \* error_count reported by ParseString

\* ------------------------------------------------ error and cause codes
kNoError == 0
kScriptExecutionFailure == 25
kLowBattery == 20
kNoCause == 0
kPatchApplicationFailure == 115
kEioFailure == 117
kVendorFailure == 200

NL == "\n"

\* ------------------------------------------------------- text helpers
Digits == {"0", "1", "2", "3", "4", "5", "6", "7", "8", "9"}

DigitVal(c) ==
  CASE c = "0" -> 0 [] c = "1" -> 1 [] c = "2" -> 2 [] c = "3" -> 3
    [] c = "4" -> 4 [] c = "5" -> 5 [] c = "6" -> 6 [] c = "7" -> 7
    [] c = "8" -> 8 [] c = "9" -> 9

Tail0(s, i) == SubSeq(s, i, Len(s))

\* android::base::Split(s, delim): the pieces between delimiters, empty
\* pieces included; never an empty vector.
RECURSIVE Split(_, _)
Split(s, delim) ==
  IF \E i \in 1..Len(s) : s[i] = delim
  THEN LET i == CHOOSE k \in 1..Len(s) :
                  s[k] = delim /\ \A j \in 1..(k - 1) : s[j] /= delim
       IN <<SubSeq(s, 1, i - 1)>> \o Split(Tail0(s, i + 1), delim)
  ELSE <<s>>

RECURSIVE Join(_)
Join(ls) ==
  IF Len(ls) = 0 THEN <<>>
  ELSE IF Len(ls) = 1 THEN ls[1]
  ELSE ls[1] \o <<NL>> \o Join(Tail(ls))

\* ------------------------------------------------------ command lines
UiPrintLine(text) == [cmd |-> "ui_print", text |-> text, num |-> 0]
LogErrorLine(n) == [cmd |-> "log error", text |-> <<>>, num |-> n]
LogCauseLine(n) == [cmd |-> "log cause", text |-> <<>>, num |-> n]
RetryUpdateLine == [cmd |-> "retry_update", text |-> <<>>, num |-> 0]
RawLine(text) == [cmd |-> "", text |-> text, num |-> 0]

NoErrorMessageText == <<"script aborted (no error message)">>
NoFileContextsText == <<"Warning: No file_contexts">>
\* Faulty variant: the result left out of the success line.
SucceededText_NoResult(result) == <<"script succeeded: result was [", "]">>

SucceededText(result) == <<"script succeeded: result was [">> \o result \o <<"]">>

\* ------------------------------------------- sscanf(line, "E%d: ", &n)
\* First position at or after i that holds no white space.
RECURSIVE SkipSpace(_, _)
SkipSpace(s, i) ==
  IF i <= Len(s) /\ s[i] = " " THEN SkipSpace(s, i + 1) ELSE i

\* First position at or after i that holds no digit.
RECURSIVE DigitsEnd(_, _)
DigitsEnd(s, i) ==
  IF i <= Len(s) /\ s[i] \in Digits THEN DigitsEnd(s, i + 1) ELSE i

RECURSIVE DecVal(_)
DecVal(ds) ==
  IF Len(ds) = 0 THEN 0
  ELSE 10 * DecVal(SubSeq(ds, 1, Len(ds) - 1)) + DigitVal(ds[Len(ds)])

\* The %d conversion at position i: white space is skipped, one sign is
\* accepted, then at least one digit is needed.
ScanInt(s, i) ==
  LET j == SkipSpace(s, i)
      signed == j <= Len(s) /\ s[j] \in {"+", "-"}
      k == IF signed THEN j + 1 ELSE j
      e == DigitsEnd(s, k)
      mag == DecVal(SubSeq(s, k, e - 1))
  IN IF e = k THEN [ok |-> FALSE, val |-> 0]
     ELSE [ok |-> TRUE, val |-> IF signed /\ s[j] = "-" THEN 0 - mag ELSE mag]

\* The number of conversions sscanf reports for the format "E%d: ", and the
\* converted value.  The directives after %d cannot change the count.
SscanfErrorCode(line) ==
  IF Len(line) >= 1 /\ line[1] = "E"
  THEN LET r == ScanInt(line, 2)
       IN [count |-> IF r.ok THEN 1 ELSE 0, val |-> r.val]
  ELSE [count |-> 0, val |-> 0]

\* ----------------------------------------------------------- UiPrint
\* Faulty variant: the emptiness test of UiPrint left out.
NonEmptyUiLines_All(lines) == [i \in 1..Len(lines) |-> UiPrintLine(lines[i])]

\* The lines UiPrint writes: one per non-empty piece of the message.
RECURSIVE NonEmptyUiLines(_)
NonEmptyUiLines(lines) ==
  IF Len(lines) = 0 THEN <<>>
  ELSE (IF Len(Head(lines)) /= 0 THEN <<UiPrintLine(Head(lines))>> ELSE <<>>)
       \o NonEmptyUiLines(Tail(lines))

UiPrintLines(message) == NonEmptyUiLines(Split(message, NL))

\* ---------------------------------------- ParseAndReportErrorCode parts
\* Faulty variant: a code that is already set is kept.
ScanLine_FirstWins(line, code) ==
  IF code /= kNoError THEN code
  ELSE LET r == SscanfErrorCode(line)
       IN IF r.count = 1 THEN r.val ELSE code

\* Faulty variant: a failed conversion clears the code.
ScanLine_ClearOnFailure(line, code) ==
  IF Len(line) /= 0 /\ line[1] = "E"
  THEN LET r == SscanfErrorCode(line)
       IN IF r.count = 1 THEN r.val ELSE kNoError
  ELSE code

\* error_code after one line of the message has been looked at.
ScanLine(line, code) ==
  IF Len(line) /= 0 /\ line[1] = "E"
  THEN LET r == SscanfErrorCode(line)
       IN IF r.count = 1 THEN r.val ELSE code
  ELSE code

\* error_code after the loop over the lines.
RECURSIVE ScanLines(_, _)
ScanLines(lines, code) ==
  IF Len(lines) = 0 THEN code
  ELSE ScanLines(Tail(lines), ScanLine(Head(lines), code))

\* What the loop prints: one line per piece of the message.
ErrmsgUiLines(lines) == [i \in 1..Len(lines) |-> UiPrintLine(lines[i])]

\* Faulty variant: the generic code is forced on every failure.
FinalErrorCode_Always(code) == kScriptExecutionFailure

\* Faulty variant: the fallback to the generic code left out.
FinalErrorCode_Keep(code) == code

FinalErrorCode(code) ==
  IF code = kNoError THEN kScriptExecutionFailure ELSE code

\* Faulty variant: the kEioFailure branch left out.
RetryEligible_PatchOnly(cause) == cause = kPatchApplicationFailure

RetryEligible(cause) ==
  cause = kPatchApplicationFailure \/ cause = kEioFailure

\* Faulty variant: retry_update written before the cause is logged.
CauseLines_RetryFirst(cause) ==
  IF cause /= kNoCause
  THEN (IF cause = kPatchApplicationFailure \/ cause = kEioFailure
        THEN <<RetryUpdateLine>> ELSE <<>>) \o <<LogCauseLine(cause)>>
  ELSE <<>>

\* Faulty variant: only a cause that asks for a retry is logged.
CauseLines_OnlyRetryEligible(cause) ==
  IF cause = kPatchApplicationFailure \/ cause = kEioFailure
  THEN <<LogCauseLine(cause), RetryUpdateLine>>
  ELSE <<>>

CauseLines(cause) ==
  IF cause /= kNoCause
  THEN <<LogCauseLine(cause)>> \o
       (IF RetryEligible(cause) THEN <<RetryUpdateLine>> ELSE <<>>)
  ELSE <<>>

\* Faulty variant: nothing is printed for an empty message.
ParseAndReportErrorCode_NoGenericLine(st) ==
  LET lines == Split(st.errmsg, NL)
      scanned == IF Len(st.errmsg) = 0 THEN st.error_code
                 ELSE ScanLines(lines, st.error_code)
      ui == IF Len(st.errmsg) = 0 THEN <<>> ELSE ErrmsgUiLines(lines)
      final == FinalErrorCode(scanned)
  IN [out |-> ui \o <<LogErrorLine(final)>> \o CauseLines(st.cause_code),
      error_code |-> final]

\* The lines ParseAndReportErrorCode writes and the error_code it leaves.
ParseAndReportErrorCode(st) ==
  LET lines == Split(st.errmsg, NL)
      scanned == IF Len(st.errmsg) = 0 THEN st.error_code
                 ELSE ScanLines(lines, st.error_code)
      ui == IF Len(st.errmsg) = 0 THEN <<UiPrintLine(NoErrorMessageText)>>
            ELSE ErrmsgUiLines(lines)
      final == FinalErrorCode(scanned)
  IN [out |-> ui \o <<LogErrorLine(final)>> \o CauseLines(st.cause_code),
      error_code |-> final]

\* ------------------------------------------------------------- inputs
\* Lines an abort message is made of.
SampleLines ==
  { <<>>,
    <<"Please check.">>,
    <<"E", "3", "0", ":", " ", "wrong device.">>,
    <<"E", "7", ":", " ", "x">>,
    <<"E", "0", ":", " ", "x">>,
    <<"E", "4", " ", "x">>,
    <<"E", "-", "5", ":">>,
    <<"E", " ", "6", ":">>,
    <<"E", "rror: x">> }

RECURSIVE SeqsUpTo(_, _)
SeqsUpTo(S, n) ==
  IF n = 0 THEN { <<>> }
  ELSE LET shorter == SeqsUpTo(S, n - 1)
       IN shorter \cup { Append(q, x) : q \in shorter, x \in S }

ErrMsgs == { Join(ls) : ls \in SeqsUpTo(SampleLines, MaxLines) }
ErrorCodes == { kNoError, kLowBattery }
CauseCodes == { kNoCause, kPatchApplicationFailure, kEioFailure, kVendorFailure }
Results == { <<>>, <<"ok">>, <<" ", "ok", NL>> }
Scripts == { <<"ui_print(1);", NL>> }
Messages == SeqsUpTo({"a", "b", NL}, MaxMsgLen)
InitSteps ==
  { "fdopen", "MapFile", "OpenArchiveFromMemory", "FindEntry", "ExtractToMemory", "none" }

\* State as its constructor leaves it.
NewState(script, retry) ==
  [script |-> script, is_retry |-> retry, errmsg |-> <<>>,
   error_code |-> kNoError, cause_code |-> kNoCause]

NoState == NewState(<<>>, FALSE)

NoParse == [error |-> 0, error_count |-> 0]

NoInitArg == [is_retry |-> FALSE, sehandle |-> FALSE]

\* -------------------------------------------------------------- state
VARIABLES
  cmd_pipe_,        \* TRUE when cmd_pipe_ holds an open stream
  updater_script_,  \* the script text RunUpdate parses
  is_retry_,
  sehandle_,        \* TRUE when sehandle_ is not null
  result_,
  extracted,        \* <<bytes>> of the last ExtractToMemory that succeeded, <<>> before
  pc,               \* "idle", "returned" (a call has just returned), "crashed"
  op,               \* the call that has just returned
  ret,              \* its return value
  out,              \* the lines it put on the command pipe, in order
  step,             \* Init: the step that failed, "none" when none did
  init_arg,         \* Init: the is_retry and sehandle arguments of the call
  parsed,           \* RunUpdate: <<text>> handed to ParseString
  parse_result,     \* RunUpdate: what ParseString returned and counted
  evaluated,        \* RunUpdate: Evaluate was called
  state,            \* RunUpdate: the State as Evaluate left it
  arg,              \* UiPrint / WriteToCommandPipe: the message
  null_write        \* a write through a null cmd_pipe_ has happened

vars ==
  <<cmd_pipe_, updater_script_, is_retry_, sehandle_, result_, extracted,
    pc, op, ret, out, step, init_arg, parsed, parse_result, evaluated, state, arg,
    null_write>>

members == <<cmd_pipe_, updater_script_, is_retry_, sehandle_, result_>>

Init ==
  /\ cmd_pipe_ = FALSE
  /\ updater_script_ = <<>>
  /\ is_retry_ = FALSE
  /\ sehandle_ = FALSE
  /\ result_ = <<>>
  /\ extracted = <<>>
  /\ pc = "idle"
  /\ op = "none"
  /\ ret = FALSE
  /\ out = <<>>
  /\ step = "none"
  /\ init_arg = NoInitArg
  /\ parsed = <<>>
  /\ parse_result = NoParse
  /\ evaluated = FALSE
  /\ state = NoState
  /\ arg = <<>>
  /\ null_write = FALSE

\* A call that writes `lines` and returns `r`.  With a null cmd_pipe_ a
\* write is undefined: the process dies, or goes on with the line lost.
\* For the void WriteToCommandPipe, r tells whether fflush was called; for
\* the void UiPrint it is TRUE.
Writes(name, lines, r) ==
  /\ op' = name
  /\ IF Len(lines) = 0 \/ cmd_pipe_
     THEN /\ out' = lines
          /\ ret' = r
          /\ pc' = "returned"
          /\ null_write' = null_write
     ELSE /\ out' = <<>>
          /\ null_write' = TRUE
          /\ \/ pc' = "crashed" /\ ret' = FALSE
             \/ pc' = "returned" /\ ret' = r

\* Faulty variant: the warning written as soon as the pipe is open.
InitLines_WarnEarly(failed, sehandle) ==
  IF failed /= "fdopen" /\ ~sehandle THEN <<UiPrintLine(NoFileContextsText)>>
  ELSE <<>>

\* Faulty variant: the warning written whether or not a handle was given.
InitLines_WarnAlways(failed, sehandle) ==
  IF failed = "none" THEN <<UiPrintLine(NoFileContextsText)>> ELSE <<>>

\* The line Init writes, given the first step that fails and the handle.
InitLines(failed, sehandle) ==
  IF failed = "none" /\ ~sehandle THEN <<UiPrintLine(NoFileContextsText)>>
  ELSE <<>>

\* Updater::Init.  failed names the first step that fails.
InitCall ==
  /\ pc = "idle"
  /\ \E failed \in InitSteps, script \in Scripts, is_retry \in BOOLEAN,
        sehandle \in BOOLEAN :
       /\ op' = "Init"
       /\ pc' = "returned"
       /\ step' = failed
       /\ init_arg' = [is_retry |-> is_retry, sehandle |-> sehandle]
       /\ cmd_pipe_' = (failed /= "fdopen")
       /\ ret' = (failed = "none")
       /\ extracted' = IF failed = "none" THEN <<script>> ELSE extracted
       /\ out' = InitLines(failed, sehandle)
       /\ IF failed = "none"
          THEN /\ is_retry_' = is_retry
               /\ sehandle_' = sehandle
          ELSE UNCHANGED <<is_retry_, sehandle_>>
       /\ UNCHANGED <<updater_script_, result_, parsed, parse_result, evaluated,
                      state, arg, null_write>>

\* Faulty variant: the error count is not looked at.
ParseFailed_ErrorOnly(error, error_count) == error /= 0

ParseFailed(error, error_count) == error /= 0 \/ error_count > 0

\* Faulty variant: the cause is logged whatever the result is.
SuccessLines_AlwaysCause(result, cause) ==
  <<UiPrintLine(SucceededText(result))>> \o
  (IF cause /= kNoCause THEN <<LogCauseLine(cause)>> ELSE <<>>)

\* Faulty variant: a cause that asks for a retry is acted on after a success.
SuccessLines_Retry(result, cause) ==
  <<UiPrintLine(SucceededText(result))>> \o
  (IF Len(result) = 0 /\ cause /= kNoCause THEN <<LogCauseLine(cause)>> ELSE <<>>) \o
  (IF cause = kPatchApplicationFailure \/ cause = kEioFailure
   THEN <<RetryUpdateLine>> ELSE <<>>)

SuccessLines(result, cause) ==
  <<UiPrintLine(SucceededText(result))>> \o
  (IF Len(result) = 0 /\ cause /= kNoCause THEN <<LogCauseLine(cause)>> ELSE <<>>)

\* Updater::RunUpdate, the parse having failed.
RunUpdateParseError ==
  /\ pc = "idle"
  /\ \E error \in {0, 1}, error_count \in 0..MaxParseErrors :
       /\ ParseFailed(error, error_count)
       /\ parsed' = <<updater_script_>>
       /\ parse_result' = [error |-> error, error_count |-> error_count]
       /\ evaluated' = FALSE
       /\ state' = NoState
       /\ Writes("RunUpdate", <<>>, FALSE)
       /\ UNCHANGED <<members, extracted, step, init_arg, arg>>

\* Updater::RunUpdate, Evaluate having returned true.
RunUpdateSuccess ==
  /\ pc = "idle"
  /\ \E error \in {0, 1}, error_count \in 0..MaxParseErrors,
        result \in Results, cause \in CauseCodes :
       /\ ~ParseFailed(error, error_count)
       /\ parsed' = <<updater_script_>>
       /\ parse_result' = [error |-> error, error_count |-> error_count]
       /\ evaluated' = TRUE
       /\ state' = [NewState(updater_script_, is_retry_) EXCEPT !.cause_code = cause]
       /\ result_' = result
       /\ Writes("RunUpdate", SuccessLines(result, cause), TRUE)
       /\ UNCHANGED <<cmd_pipe_, updater_script_, is_retry_, sehandle_, extracted,
                      step, init_arg, arg>>

\* Updater::RunUpdate, Evaluate having returned false.
RunUpdateFailure ==
  /\ pc = "idle"
  /\ \E error \in {0, 1}, error_count \in 0..MaxParseErrors,
        errmsg \in ErrMsgs, code \in ErrorCodes, cause \in CauseCodes :
       LET st == [NewState(updater_script_, is_retry_) EXCEPT
                    !.errmsg = errmsg, !.error_code = code, !.cause_code = cause]
       IN /\ ~ParseFailed(error, error_count)
          /\ parsed' = <<updater_script_>>
          /\ parse_result' = [error |-> error, error_count |-> error_count]
          /\ evaluated' = TRUE
          /\ state' = st
          /\ Writes("RunUpdate", ParseAndReportErrorCode(st).out, FALSE)
          /\ UNCHANGED <<members, extracted, step, init_arg, arg>>

\* Updater::WriteToCommandPipe.
WriteToCommandPipe ==
  /\ pc = "idle"
  /\ \E message \in Messages, flush \in BOOLEAN :
       /\ arg' = message
       /\ Writes("WriteToCommandPipe", <<RawLine(message)>>, flush)
       /\ UNCHANGED <<members, extracted, step, init_arg, parsed, parse_result, evaluated,
                      state>>

\* Updater::UiPrint.
UiPrint ==
  /\ pc = "idle"
  /\ \E message \in Messages :
       /\ arg' = message
       /\ Writes("UiPrint", UiPrintLines(message), TRUE)
       /\ UNCHANGED <<members, extracted, step, init_arg, parsed, parse_result, evaluated,
                      state>>

\* Control is back in the caller; the supervising process has read the lines.
Return ==
  /\ pc = "returned"
  /\ pc' = "idle"
  /\ op' = "none"
  /\ ret' = FALSE
  /\ out' = <<>>
  /\ step' = "none"
  /\ init_arg' = NoInitArg
  /\ parsed' = <<>>
  /\ parse_result' = NoParse
  /\ evaluated' = FALSE
  /\ state' = NoState
  /\ arg' = <<>>
  /\ UNCHANGED <<members, extracted, null_write>>

Next ==
  \/ InitCall
  \/ RunUpdateParseError
  \/ RunUpdateSuccess
  \/ RunUpdateFailure
  \/ WriteToCommandPipe
  \/ UiPrint
  \/ Return

Spec == Init /\ [][Next]_vars

\* ============================================================ claims
\* ------------------------------------------------- reading a returned call
Returned(name) == pc = "returned" /\ op = name

\* RunUpdate has returned after Evaluate failed, the pipe being open.
FailedEvaluation ==
  Returned("RunUpdate") /\ evaluated /\ ~ret /\ cmd_pipe_

Positions(cmd) == { i \in 1..Len(out) : out[i].cmd = cmd }
Count(cmd) == Cardinality(Positions(cmd))

\* The numbers carried by the `log error:` lines of the call.
LogErrorNums == { out[i].num : i \in Positions("log error") }

\* The pieces of the abort message between newlines, found by position.
Breaks(s) == { i \in 1..Len(s) : s[i] = NL }
PieceStarts(s) == {1} \cup { i + 1 : i \in Breaks(s) }
PieceEnd(s, b) ==
  IF \E i \in Breaks(s) : i >= b
  THEN (CHOOSE i \in Breaks(s) : i >= b /\ \A j \in Breaks(s) : j >= b => i <= j) - 1
  ELSE Len(s)
Piece(s, b) == SubSeq(s, b, PieceEnd(s, b))

\* s without its newlines.
RECURSIVE Flat(_)
Flat(s) ==
  IF Len(s) = 0 THEN <<>>
  ELSE (IF Head(s) = NL THEN <<>> ELSE <<Head(s)>>) \o Flat(Tail(s))

RECURSIVE Concat(_)
Concat(ls) == IF Len(ls) = 0 THEN <<>> ELSE Head(ls) \o Concat(Tail(ls))

\* A line of the form E<digits>: and the position of its colon.
ColonAt(line, k) ==
  /\ k >= 3 /\ k <= Len(line)
  /\ line[1] = "E"
  /\ line[k] = ":"
  /\ \A j \in 2..(k - 1) : line[j] \in Digits
IsMarker(line) == \E k \in 1..Len(line) : ColonAt(line, k)

RECURSIVE Pow10(_)
Pow10(n) == IF n = 0 THEN 1 ELSE 10 * Pow10(n - 1)

\* The decimal value of the digits at positions a..b of line.
DigitsValue(line, a, b) ==
  LET RECURSIVE Sum(_)
      Sum(j) == IF j > b THEN 0
                ELSE DigitVal(line[j]) * Pow10(b - j) + Sum(j + 1)
  IN Sum(a)

MarkerValue(line) ==
  LET k == CHOOSE c \in 1..Len(line) : ColonAt(line, c)
  IN DigitsValue(line, 2, k - 1)

\* A line that begins with E, then blanks, then one optional sign, then a
\* digit: the lines from which "E%d" converts a number, colon or not.
FirstDigitAt(line, k) ==
  /\ k >= 2 /\ k <= Len(line)
  /\ line[1] = "E"
  /\ line[k] \in Digits
  /\ \E m \in 2..k :
       /\ \A j \in 2..(m - 1) : line[j] = " "
       /\ m = k \/ (m = k - 1 /\ line[m] \in {"+", "-"})
BeginsWithNumber(line) == \E k \in 1..Len(line) : FirstDigitAt(line, k)

LastDigitFrom(line, k) ==
  CHOOSE e \in k..Len(line) :
    /\ \A j \in k..e : line[j] \in Digits
    /\ e = Len(line) \/ line[e + 1] \notin Digits

NumberValue(line) ==
  LET k == CHOOSE c \in 1..Len(line) : FirstDigitAt(line, c)
      mag == DigitsValue(line, k, LastDigitFrom(line, k))
  IN IF line[k - 1] = "-" THEN 0 - mag ELSE mag

\* Start of the last piece of the message that satisfies P.
HasPiece(s, P(_)) == \E b \in PieceStarts(s) : P(Piece(s, b))
LastPiece(s, P(_)) ==
  Piece(s, CHOOSE b \in PieceStarts(s) :
             /\ P(Piece(s, b))
             /\ \A c \in PieceStarts(s) : P(Piece(s, c)) => c <= b)

\* ---------------------------------------------------------------- C1
\* C1: after a failed evaluation the call has written one retry_update
\* line when the cause code is kPatchApplicationFailure or kEioFailure, and
\* none for every other cause code, kNoCause included.
C1_RetryIffEligibleCause ==
  FailedEvaluation =>
    Count("retry_update") =
      (IF state.cause_code \in {kPatchApplicationFailure, kEioFailure} THEN 1 ELSE 0)

C1_Witness ==
  /\ FailedEvaluation
  /\ state.cause_code = kEioFailure
  /\ Count("retry_update") = 1

C4_OneLogErrorNeverNone ==
  FailedEvaluation =>
    /\ Count("log error") = 1
    /\ kNoError \notin LogErrorNums
    /\ (state.error_code = kNoError /\ ~HasPiece(state.errmsg, BeginsWithNumber))
         => LogErrorNums = { kScriptExecutionFailure }

C4_Witness ==
  /\ FailedEvaluation
  /\ state.error_code = kNoError
  /\ state.errmsg = <<"Please check.">>
  /\ Count("log error") = 1
  /\ LogErrorNums = { kScriptExecutionFailure }

\* ---------------------------------------------------------------- C5
\* C5: once an Init has succeeded, the text RunUpdate hands to ParseString is
\* the content ExtractToMemory read from the script entry.
C5_ParsedIsExtracted ==
  (Returned("RunUpdate") /\ extracted /= <<>>) => parsed = extracted

\* ---------------------------------------------------------------- C6
\* C6 as stated: every Init or RunUpdate that returns false has written at
\* least one ui_print line.
C6_AsStated ==
  ((Returned("Init") \/ Returned("RunUpdate")) /\ ~ret) => Count("ui_print") >= 1

\* C6 amended: every failed evaluation, a message with an unparsable E line
\* included, has written at least one ui_print line when RunUpdate returns;
\* an Init that fails and a RunUpdate whose parse fails write no ui_print line.
C6_FailedEvaluationPrints ==
  /\ FailedEvaluation => Count("ui_print") >= 1
  /\ (Returned("Init") /\ ~ret) => Count("ui_print") = 0
  /\ (Returned("RunUpdate") /\ ~evaluated) => Count("ui_print") = 0

C6_Witness ==
  /\ FailedEvaluation
  /\ state.errmsg = <<"E", "rror: x">>
  /\ Count("ui_print") = 1

\* ---------------------------------------------------------------- C7
\* C7: when ParseString returns an error or counts an error, RunUpdate
\* returns false, Evaluate is not called, no State is left by an evaluation
\* and no line is written.
C7_ParseErrorStops ==
  (Returned("RunUpdate") /\ (parse_result.error /= 0 \/ parse_result.error_count > 0)) =>
    /\ ~ret
    /\ ~evaluated
    /\ state = NoState
    /\ out = <<>>

C7_Witness ==
  /\ Returned("RunUpdate")
  /\ parse_result = [error |-> 0, error_count |-> 2]
  /\ cmd_pipe_
  /\ ~ret

\* ---------------------------------------------------------------- C8
\* C8: an Init that fails at MapFile, OpenArchiveFromMemory, FindEntry or
\* ExtractToMemory returns false and writes no line.
C8_FailedInitWritesNothing ==
  (Returned("Init") /\
     step \in {"MapFile", "OpenArchiveFromMemory", "FindEntry", "ExtractToMemory"}) =>
    /\ ~ret
    /\ out = <<>>

C8_Witness ==
  /\ Returned("Init")
  /\ step = "FindEntry"
  /\ cmd_pipe_
  /\ ~ret

\* ---------------------------------------------------------------- C9
\* C9: after a failed evaluation the lines of the call are, in this order,
\* the ui_print lines, the `log error:` line, the `log cause:` line if any
\* and the retry_update line if any; the ui_print lines carry the pieces of
\* the message in message order; and the message
\* "E30: wrong device.\nPlease check." with no cause gives exactly the two
\* ui_print lines and `log error: 30`.
Rank(cmd) ==
  CASE cmd = "ui_print" -> 1 [] cmd = "log error" -> 2
    [] cmd = "log cause" -> 3 [] cmd = "retry_update" -> 4 [] OTHER -> 0

ExampleMessage ==
  <<"E", "3", "0", ":", " ", "wrong device.", NL, "Please check.">>

C9_OrderOfLines ==
  FailedEvaluation =>
    /\ \A i \in 1..Len(out) : Rank(out[i].cmd) >= 1
    /\ \A i, j \in 1..Len(out) :
         i < j => /\ Rank(out[i].cmd) <= Rank(out[j].cmd)
                  /\ Rank(out[i].cmd) = Rank(out[j].cmd) => out[i].cmd = "ui_print"
    /\ state.errmsg /= <<>> =>
         Concat([i \in 1..Count("ui_print") |-> out[i].text]) = Flat(state.errmsg)
    /\ (state.errmsg = ExampleMessage /\ state.cause_code = kNoCause) =>
         out = << UiPrintLine(<<"E", "3", "0", ":", " ", "wrong device.">>),
                  UiPrintLine(<<"Please check.">>),
                  LogErrorLine(30) >>

C9_Witness ==
  /\ FailedEvaluation
  /\ state.errmsg = ExampleMessage
  /\ state.cause_code = kPatchApplicationFailure
  /\ Len(out) = 5
  /\ out[5] = RetryUpdateLine

\* --------------------------------------------------------------- C10
\* C10: UiPrint writes one ui_print line for each non-empty piece of the
\* message between newlines, in order, and nothing for the empty pieces;
\* "a\nb\n" gives exactly two lines.
NonEmptyStarts(s) ==
  { i \in 1..Len(s) : s[i] /= NL /\ (i = 1 \/ s[i - 1] = NL) }

C10_UiPrintSplits ==
  (Returned("UiPrint") /\ cmd_pipe_) =>
    /\ Len(out) = Cardinality(NonEmptyStarts(arg))
    /\ \A i \in 1..Len(out) :
         /\ out[i].cmd = "ui_print"
         /\ out[i].text /= <<>>
         /\ \A j \in 1..Len(out[i].text) : out[i].text[j] /= NL
    /\ Concat([i \in 1..Len(out) |-> out[i].text]) = Flat(arg)
    /\ arg = <<"a", NL, "b", NL>> =>
         out = << UiPrintLine(<<"a">>), UiPrintLine(<<"b">>) >>

C10_Witness ==
  /\ Returned("UiPrint")
  /\ cmd_pipe_
  /\ arg = <<"a", NL, "b", NL>>
  /\ Len(out) = 2

\* --------------------------------------------------------------- C11
\* RunUpdate has returned after Evaluate succeeded, the pipe being open.
SucceededEvaluation ==
  Returned("RunUpdate") /\ evaluated /\ ret /\ cmd_pipe_

\* C11: a successful evaluation with an empty result and a cause other than
\* kNoCause writes `log cause: <cause>` right after the success line and
\* returns true; with a non-empty result, or with kNoCause, no `log cause:`
\* line is written.
C11_CauseLoggedOnEmptyResult ==
  SucceededEvaluation =>
    IF result_ = <<>> /\ state.cause_code /= kNoCause
    THEN /\ Len(out) = 2
         /\ out[1].cmd = "ui_print"
         /\ out[2] = LogCauseLine(state.cause_code)
    ELSE Count("log cause") = 0

C11_Witness ==
  /\ SucceededEvaluation
  /\ result_ = <<>>
  /\ state.cause_code = kVendorFailure
  /\ Count("log cause") = 1

\* --------------------------------------------------------------- C12
\* C12: after a failed evaluation the call has written `log cause: <cause>`
\* once when the cause code is not kNoCause, retry-eligible or not, and no
\* `log cause:` line when it is kNoCause.
C12_CauseLoggedOnFailure ==
  FailedEvaluation =>
    IF state.cause_code /= kNoCause
    THEN /\ Count("log cause") = 1
         /\ \A i \in Positions("log cause") : out[i].num = state.cause_code
    ELSE Count("log cause") = 0

C12_Witness ==
  /\ FailedEvaluation
  /\ state.cause_code = kVendorFailure
  /\ Count("log cause") = 1
  /\ Count("retry_update") = 0

\* --------------------------------------------------------------- C13
\* C13: no line that a call puts on the command pipe carries a newline
\* inside its text, so that every write is one line of the protocol;
\* WriteToCommandPipe writes one such line for every message.
C13_NoEmbeddedNewline ==
  (pc = "returned" /\ cmd_pipe_) =>
    /\ \A i \in 1..Len(out) : \A j \in 1..Len(out[i].text) : out[i].text[j] /= NL
    /\ Returned("WriteToCommandPipe") => Len(out) = 1

\* --------------------------------------------------------------- C14
\* C14 as stated: an Init called without a handle that opens the pipe writes
\* the warning line, exactly once, whatever it returns.
C14_AsStated ==
  (Returned("Init") /\ cmd_pipe_) =>
    out = (IF init_arg.sehandle THEN <<>> ELSE <<UiPrintLine(NoFileContextsText)>>)

\* C14 amended: an Init that succeeds writes the warning line exactly once
\* when called without a handle and no line when called with one; an Init
\* that fails writes no warning; whether Init returns true depends only on
\* the steps succeeding, not on the handle.
C14_WarningOnSuccessOnly ==
  Returned("Init") =>
    /\ ret = (step = "none")
    /\ out = (IF ret /\ ~init_arg.sehandle THEN <<UiPrintLine(NoFileContextsText)>>
              ELSE <<>>)

C14_Witness ==
  /\ Returned("Init")
  /\ ret
  /\ ~init_arg.sehandle
  /\ init_arg.is_retry
  /\ Len(out) = 1

\* --------------------------------------------------------------- C15
\* s without the white space at its two ends.
RECURSIVE TrimLeft(_)
TrimLeft(s) ==
  IF Len(s) > 0 /\ Head(s) \in {" ", NL} THEN TrimLeft(Tail(s)) ELSE s

RECURSIVE TrimRight(_)
TrimRight(s) ==
  IF Len(s) > 0 /\ s[Len(s)] \in {" ", NL}
  THEN TrimRight(SubSeq(s, 1, Len(s) - 1)) ELSE s

Trim(s) == TrimRight(TrimLeft(s))

\* C15 as stated: a successful evaluation returns true and writes exactly
\* one success line, which carries the trimmed result.
C15_AsStated ==
  SucceededEvaluation =>
    /\ Count("ui_print") = 1
    /\ out[1] = UiPrintLine(<<"script succeeded: result was [">> \o Trim(result_)
                            \o <<"]">>)

\* C15 amended: a successful evaluation returns true and writes the success
\* line once; it carries the result exactly as Evaluate stored it, white
\* space and newlines at its ends included.
C15_SuccessLineVerbatim ==
  SucceededEvaluation =>
    /\ Count("ui_print") = 1
    /\ out[1] = UiPrintLine(<<"script succeeded: result was [">> \o result_ \o <<"]">>)

C15_Witness ==
  /\ SucceededEvaluation
  /\ result_ = <<" ", "ok", NL>>
  /\ out[1].text = <<"script succeeded: result was [", " ", "ok", NL, "]">>

\* --------------------------------------------------------------- C16
\* C16: when no line of the abort message has the form E<digits>:, the
\* error_code the engine left is not overwritten, so the `log error:` code is
\* that code, or kScriptExecutionFailure when it was kNoError.
C16_OnlyFullMarkerOverwrites ==
  (FailedEvaluation /\ ~HasPiece(state.errmsg, IsMarker)) =>
    LogErrorNums = { IF state.error_code = kNoError THEN kScriptExecutionFailure
                     ELSE state.error_code }

\* --------------------------------------------------------------- C17
\* A line that begins with E from which no number can be converted.
Unparsable(line) ==
  Len(line) >= 1 /\ line[1] = "E" /\ ~BeginsWithNumber(line)

\* C17: a line that begins with E but holds no number leaves error_code as
\* the engine or the earlier lines set it, is still written as a ui_print
\* line, and does not stop the loop: the `log error:` code is the number of
\* the last numbered line, before or after it, or the engine's code when
\* there is none (kScriptExecutionFailure for kNoError).
C17_UnparsableLineKeepsCode ==
  (FailedEvaluation /\ HasPiece(state.errmsg, Unparsable)) =>
    LET kept == IF HasPiece(state.errmsg, BeginsWithNumber)
                THEN NumberValue(LastPiece(state.errmsg, BeginsWithNumber))
                ELSE state.error_code
    IN /\ LogErrorNums = { IF kept = kNoError THEN kScriptExecutionFailure ELSE kept }
       /\ Count("log error") = 1
       /\ \A b \in PieceStarts(state.errmsg) :
            Unparsable(Piece(state.errmsg, b)) =>
              \E i \in Positions("ui_print") : out[i].text = Piece(state.errmsg, b)

C17_Witness ==
  /\ FailedEvaluation
  /\ state.error_code = kLowBattery
  /\ state.errmsg = Join(<< <<"E", "7", ":", " ", "x">>, <<"E", "rror: x">> >>)
  /\ LogErrorNums = {7}
  /\ out[2] = UiPrintLine(<<"E", "rror: x">>)

\* --------------------------------------------------------------- C18
\* C18: after a failed evaluation with a non-empty abort message the call
\* has written one ui_print line for each non-empty piece of the message
\* and none with an empty text.
C18_NoEmptyUiLine ==
  (FailedEvaluation /\ state.errmsg /= <<>>) =>
    /\ Count("ui_print") = Cardinality(NonEmptyStarts(state.errmsg))
    /\ \A i \in Positions("ui_print") : out[i].text /= <<>>

\* --------------------------------------------------------------- C19
\* C19: a RunUpdate whose evaluation succeeds writes no `log error:` line
\* and no retry_update line, whatever cause code the script recorded; a call
\* that has written either is a RunUpdate that returns false.
C19_NoRetryAfterSuccess ==
  /\ SucceededEvaluation => (Count("log error") = 0 /\ Count("retry_update") = 0)
  /\ (pc = "returned" /\ (Count("log error") > 0 \/ Count("retry_update") > 0)) =>
       (op = "RunUpdate" /\ ~ret)

C19_Witness ==
  /\ SucceededEvaluation
  /\ result_ = <<>>
  /\ state.cause_code = kEioFailure
  /\ out[2] = LogCauseLine(kEioFailure)
  /\ Len(out) = 2

\* --------------------------------------------------------------- C20
\* C20: in no sequence of calls is a line written through a cmd_pipe_ that
\* no Init has opened.
C20_NoWriteToUnopenedPipe == ~null_write

====
